---- MODULE Spec2Model ----
(***************************************************************************)
(* Model of temp_utils: the prefix migration of move_minio.py              *)
(* (move_minio_prefix) and the transfer service of minio_bc.py.            *)
(* Texts (keys, prefixes) are sequences of one-character strings.          *)
(***************************************************************************)
EXTENDS Integers, Sequences, FiniteSets, TLC

\* ---------------------------------------------------------------- bounds
MaxObjects == 3
MaxChunks == 2
MaxTextLen == 3

\* ---------------------------------------------------------------- inputs
Buckets == {"hello", "hello2"}

InitKeys == { <<"x">>, <<"a", "/", "x">>, <<"a", "b", "/", "x">>, <<"a", "/", "a", "/", "x">> }

PrefixInputs == { <<>>, <<"a">>, <<"a", "/">> }

VARIABLES
    buckets,        \* backing store: the buckets that exist
    objects,        \* backing store: <<bucket, key>> -> content
    src_bucket, src_prefix, dest_bucket, dest_prefix, overwrite,
    pc,             \* position of move_minio_prefix
    remaining,      \* the keys the listing iterator has not yielded yet
    key, dest_key,  \* loop variables
    moved, copied, skipped, errors,
    log,            \* lines printed
    raised,         \* the exception that left move_minio_prefix, or "none"
    listed,         \* history: the keys the listing returned
    calls,          \* history: stat/copy/remove calls and their outcome
    objects0,       \* history: the store when the run started
    buckets0,       \* history: the buckets when the run started
    \* ---- MinIOService (minio_bc.py)
    t_objects,      \* the service bucket: object name -> sequence of chunks
    directory, filename, object_name,
    t_op,           \* the operation of the service that was called
    t_pc,           \* position of the operation (of the stream_file generator)
    backend,        \* history: what the backing store answered last
    has_close,      \* upload_stream: data has a callable close
    data_closes,    \* upload_stream: calls of data.close()
    response,       \* the local variable response of stream_file
    chunks_out,     \* the chunks yielded to the consumer
    closes,         \* calls of response.close()
    releases,       \* calls of response.release_conn()
    t_result,       \* how the operation ended
    \* ---- the pure functions, applied to drawn inputs
    fn,             \* the function under evaluation
    arg1, arg2,     \* its arguments
    out1,           \* its result
    out2,           \* normalize_prefix applied to out1
    steps           \* the number of applications made

vars == << buckets, objects, src_bucket, src_prefix, dest_bucket, dest_prefix,
           overwrite, pc, remaining, key, dest_key, moved, copied, skipped,
           errors, log, raised, listed, calls, objects0, buckets0,
           t_objects, directory, filename, object_name, t_op, t_pc, backend,
           has_close, data_closes, response, chunks_out, closes, releases,
           t_result, fn, arg1, arg2, out1, out2, steps >>

move_vars == << buckets, objects, src_bucket, src_prefix, dest_bucket, dest_prefix,
                overwrite, pc, remaining, key, dest_key, moved, copied, skipped,
                errors, log, raised, listed, calls, objects0, buckets0 >>

transfer_vars == << t_objects, directory, filename, object_name, t_op, t_pc, backend,
                    has_close, data_closes, response, chunks_out, closes, releases,
                    t_result >>

pure_vars == << fn, arg1, arg2, out1, out2, steps >>

\* ---------------------------------------------------------------- texts
Alphabet == {"a", "/"}

\* the texts of at most MaxTextLen characters
Texts == UNION { [1..n -> Alphabet] : n \in 0..MaxTextLen }

EndsWith(s, c) == Len(s) > 0 /\ s[Len(s)] = c

StartsWith(s, p) == Len(p) <= Len(s) /\ SubSeq(s, 1, Len(p)) = p

normalize_prefix_NoAppend(p) == p

normalize_prefix_AlwaysAppend(p) == IF p = <<>> THEN <<>> ELSE p \o <<"/">>

normalize_prefix(p) ==
    IF p = <<>> THEN <<>>
    ELSE IF EndsWith(p, "/") THEN p ELSE p \o <<"/">>

TailOf_NoStrip(k, sp) == k

TailOf(k, sp) ==
    IF sp # <<>> /\ StartsWith(k, sp) THEN SubSeq(k, Len(sp) + 1, Len(k)) ELSE k

DestKeyOf(dp, tail) == dp \o tail

\* ---------------------------------------------------------------- store
Exists(objs, b, k) == <<b, k>> \in DOMAIN objs

PutObject(objs, b, k, c) ==
    [p \in (DOMAIN objs) \cup {<<b, k>>} |-> IF p = <<b, k>> THEN c ELSE objs[p]]

copy_object(objs, db, dk, sb, sk) == PutObject(objs, db, dk, objs[<<sb, sk>>])

remove_object(objs, b, k) == [p \in (DOMAIN objs) \ {<<b, k>>} |-> objs[p]]

ensure_bucket(bs, b) == IF b \notin bs THEN bs \cup {b} ELSE bs

list_objects(objs, b, prefix) ==
    { p[2] : p \in { q \in DOMAIN objs : q[1] = b /\ StartsWith(q[2], prefix) } }

\* the orders in which the backing store may return a set of keys
Orderings(S) ==
    { s \in [1..Cardinality(S) -> S] : \A i, j \in 1..Cardinality(S) : i # j => s[i] # s[j] }

\* what stat_object can answer for a key: "ok", the code of an S3Error, or
\* "Other" for an exception that is not an S3Error
StatOutcomes(objs, b, k) ==
    IF Exists(objs, b, k) THEN {"ok", "AccessDenied", "Other"}
    ELSE {"NoSuchKey", "NotFound", "AccessDenied", "Other"}

\* line 69-71: the S3Error codes that are swallowed
StatNotFound_Any(code) == TRUE

StatNotFound(code) == code \in {"NoSuchKey", "NotFound"}

\* ---------------------------------------------------------------- control flow
\* line 52: the precondition on the source bucket
SourceMissing_Unchecked(bs, b) == FALSE

SourceMissing(bs, b) == b \notin bs

\* line 63: the destination is probed unless overwrite is set
NeedsProbe_Never(ow) == FALSE

NeedsProbe(ow) == ~ow

\* lines 74-82: where the try block goes after copy_object returned or raised
AfterCopy_DeleteAnyway(ok) == "remove"

AfterCopy_Abort(ok) == IF ok THEN "remove" ELSE "aborted"

AfterCopy_Retry(ok) == IF ok THEN "remove" ELSE "copy"

AfterCopy(ok) == IF ok THEN "remove" ELSE "loop"

\* lines 75-76: copied += 1 is reached only when copy_object returned
CopiedAfterCopy(ok, n) == IF ok THEN n + 1 ELSE n

\* lines 77-78: moved += 1 is reached only when remove_object returned
MovedAfterRemove_Early(ok, n) == n + 1

MovedAfterRemove(ok, n) == IF ok THEN n + 1 ELSE n

\* lines 80-81: the handler counts the exception of either call
ErrorsAfter_NotCounted(ok, n) == n

ErrorsAfter(ok, n) == IF ok THEN n ELSE n + 1

\* lines 73, 82: the lines printed around copy_object
CopyLines(ok, k, dk) ==
    IF ok THEN << [kind |-> "COPY", key |-> k, dest |-> dk] >>
    ELSE << [kind |-> "COPY", key |-> k, dest |-> dk],
            [kind |-> "ERROR", key |-> k, dest |-> dk] >>

\* lines 79, 82: the lines printed after remove_object
RemoveLines_Always(ok, k, dk) ==
    IF ok THEN << [kind |-> "DELETE", key |-> k, dest |-> dk] >>
    ELSE << [kind |-> "DELETE", key |-> k, dest |-> dk],
            [kind |-> "ERROR", key |-> k, dest |-> dk] >>

RemoveLines(ok, k, dk) ==
    IF ok THEN << [kind |-> "DELETE", key |-> k, dest |-> dk] >>
    ELSE << [kind |-> "ERROR", key |-> k, dest |-> dk] >>

\* line 84: the summary
SummaryLines_None(m, c, s, e) == <<>>

SummaryLines(m, c, s, e) ==
    << [kind |-> "SUMMARY", moved |-> m, copied |-> c, skipped |-> s, errors |-> e] >>

\* ---------------------------------------------------------------- Init
ObjectSets ==
    { D \in SUBSET (Buckets \X InitKeys) : Cardinality(D) <= MaxObjects }

MoveInit ==
    /\ buckets \in SUBSET Buckets
    /\ \E D \in ObjectSets :
          /\ \A p \in D : p[1] \in buckets
          /\ objects = [p \in D |-> p]
    \* the two bucket names are interchangeable: the source is the first,
    \* the destination is either one
    /\ src_bucket = "hello"
    /\ dest_bucket \in Buckets
    /\ src_prefix \in PrefixInputs
    /\ dest_prefix \in PrefixInputs
    /\ overwrite \in BOOLEAN
    /\ pc = "start"
    /\ remaining = <<>>
    /\ key = <<>>
    /\ dest_key = <<>>
    /\ moved = 0 /\ copied = 0 /\ skipped = 0 /\ errors = 0
    /\ log = <<>>
    /\ raised = "none"
    /\ listed = <<>>
    /\ calls = <<>>
    /\ objects0 = objects
    /\ buckets0 = buckets

\* the transfer service is not in use during a migration
TransferOff ==
    /\ t_objects = <<>>
    /\ directory = <<>> /\ filename = <<>> /\ object_name = <<>>
    /\ t_op = "none" /\ t_pc = "off" /\ backend = "none"
    /\ has_close = FALSE /\ data_closes = 0
    /\ response = [bound |-> FALSE, data |-> <<>>]
    /\ chunks_out = <<>>
    /\ closes = 0 /\ releases = 0
    /\ t_result = [kind |-> "none", val |-> "", err |-> FALSE]

\* no pure function is under evaluation
PureOff ==
    /\ fn = "none"
    /\ arg1 = <<>> /\ arg2 = <<>> /\ out1 = <<>> /\ out2 = <<>>
    /\ steps = 0

Init == MoveInit /\ TransferOff /\ PureOff

\* ---------------------------------------------------------------- actions
\* lines 46-58: normalise, check the buckets, zero the counters, list
Begin ==
    /\ pc = "start"
    /\ src_prefix' = normalize_prefix(src_prefix)
    /\ dest_prefix' = normalize_prefix(dest_prefix)
    /\ IF SourceMissing(buckets, src_bucket)
       THEN /\ pc' = "aborted"
            /\ raised' = "RuntimeError"
            /\ UNCHANGED << buckets, remaining, listed >>
       ELSE /\ buckets' = ensure_bucket(buckets, dest_bucket)
            /\ \E s \in Orderings(list_objects(objects, src_bucket, src_prefix')) :
                  /\ remaining' = s
                  /\ listed' = s
            /\ pc' = "loop"
            /\ UNCHANGED raised
    /\ UNCHANGED << objects, src_bucket, dest_bucket, overwrite, key, dest_key,
                    moved, copied, skipped, errors, log, calls, objects0, buckets0 >>
    /\ UNCHANGED << transfer_vars, pure_vars >>

\* lines 58-63: the iterator yields the next key
NextKey ==
    /\ pc = "loop"
    /\ remaining # <<>>
    /\ key' = Head(remaining)
    /\ dest_key' = DestKeyOf(dest_prefix, TailOf(Head(remaining), src_prefix))
    /\ remaining' = Tail(remaining)
    /\ pc' = IF NeedsProbe(overwrite) THEN "stat" ELSE "copy"
    /\ UNCHANGED << buckets, objects, src_bucket, src_prefix, dest_bucket, dest_prefix,
                    overwrite, moved, copied, skipped, errors, log, raised, listed,
                    calls, objects0, buckets0 >>
    /\ UNCHANGED << transfer_vars, pure_vars >>

\* lines 64-71: the destination probe
Stat ==
    /\ pc = "stat"
    /\ \E r \in StatOutcomes(objects, dest_bucket, dest_key) :
          /\ calls' = Append(calls, [op |-> "stat", key |-> key, dest |-> dest_key, res |-> r])
          /\ IF r = "ok"
             THEN /\ log' = Append(log, [kind |-> "SKIP", key |-> key, dest |-> dest_key])
                  /\ skipped' = skipped + 1
                  /\ pc' = "loop"
                  /\ UNCHANGED raised
             ELSE IF StatNotFound(r)
             THEN /\ pc' = "copy"
                  /\ UNCHANGED << log, skipped, raised >>
             ELSE /\ pc' = "aborted"
                  /\ raised' = r
                  /\ UNCHANGED << log, skipped >>
    /\ UNCHANGED << buckets, objects, src_bucket, src_prefix, dest_bucket, dest_prefix,
                    overwrite, remaining, key, dest_key, moved, copied, errors,
                    listed, objects0, buckets0 >>
    /\ UNCHANGED << transfer_vars, pure_vars >>

\* lines 73-76, 80-82: the server-side copy
Copy ==
    /\ pc = "copy"
    /\ \E ok \in BOOLEAN :
          /\ calls' = Append(calls, [op |-> "copy", key |-> key, dest |-> dest_key,
                                     res |-> IF ok THEN "ok" ELSE "error"])
          /\ pc' = AfterCopy(ok)
          /\ copied' = CopiedAfterCopy(ok, copied)
          /\ errors' = ErrorsAfter(ok, errors)
          /\ log' = log \o CopyLines(ok, key, dest_key)
          /\ IF ok
             THEN objects' = copy_object(objects, dest_bucket, dest_key, src_bucket, key)
             ELSE UNCHANGED objects
    /\ UNCHANGED << buckets, src_bucket, src_prefix, dest_bucket, dest_prefix,
                    overwrite, remaining, key, dest_key, moved, skipped, raised,
                    listed, objects0, buckets0 >>
    /\ UNCHANGED << transfer_vars, pure_vars >>

\* lines 77-82: the delete of the source object
Remove ==
    /\ pc = "remove"
    /\ \E ok \in BOOLEAN :
          /\ calls' = Append(calls, [op |-> "remove", key |-> key, dest |-> dest_key,
                                     res |-> IF ok THEN "ok" ELSE "error"])
          /\ pc' = "loop"
          /\ moved' = MovedAfterRemove(ok, moved)
          /\ errors' = ErrorsAfter(ok, errors)
          /\ log' = log \o RemoveLines(ok, key, dest_key)
          /\ IF ok
             THEN objects' = remove_object(objects, src_bucket, key)
             ELSE UNCHANGED objects
    /\ UNCHANGED << buckets, src_bucket, src_prefix, dest_bucket, dest_prefix,
                    overwrite, remaining, key, dest_key, copied, skipped, raised,
                    listed, objects0, buckets0 >>
    /\ UNCHANGED << transfer_vars, pure_vars >>

\* line 84: the listing is exhausted, the counters are printed
Summary ==
    /\ pc = "loop"
    /\ remaining = <<>>
    /\ log' = log \o SummaryLines(moved, copied, skipped, errors)
    /\ pc' = "done"
    /\ UNCHANGED << buckets, objects, src_bucket, src_prefix, dest_bucket, dest_prefix,
                    overwrite, remaining, key, dest_key, moved, copied, skipped, errors,
                    raised, listed, calls, objects0, buckets0 >>
    /\ UNCHANGED << transfer_vars, pure_vars >>

Next == Begin \/ NextKey \/ Stat \/ Copy \/ Remove \/ Summary

Spec == Init /\ [][Next]_vars

\* the run is one sequential call: whenever a statement can execute, it does
FairSpec == Init /\ [][Next]_vars /\ WF_vars(Next)

\* ================================================================ minio_bc.py
DirInputs == { <<>>, <<"d">>, <<"/", "d", "/">>, <<"/">> }

FileInputs == { <<"f">>, <<>> }

\* str.strip("/")
RECURSIVE LStrip(_)
LStrip(s) == IF s # <<>> /\ Head(s) = "/" THEN LStrip(Tail(s)) ELSE s

RECURSIVE RStrip(_)
RStrip(s) == IF EndsWith(s, "/") THEN RStrip(SubSeq(s, 1, Len(s) - 1)) ELSE s

Strip(s) == RStrip(LStrip(s))

_build_object_name_NoStrip(d, f) ==
    IF d # <<>> THEN d \o <<"/">> \o f ELSE f

_build_object_name(d, f) ==
    IF Strip(d) # <<>> THEN Strip(d) \o <<"/">> \o f ELSE f

\* an object of n chunks
Content(n) == [i \in 1..n |-> i]

ServiceKeys == { _build_object_name(d, f) : d \in DirInputs, f \in FileInputs \ {<<>>} }

\* what get_object can answer: the response, an S3Error code, or "Other" for
\* an exception that is not an S3Error
GetOutcomes(objs, k) ==
    IF k \in DOMAIN objs THEN {"ok", "AccessDenied", "Other"}
    ELSE {"NoSuchKey", "AccessDenied", "Other"}

\* error_helper.py: Err(code, msg); message is declared str, so a message
\* that is not text fails the validation of Error
Err(code, msg_is_text) ==
    IF msg_is_text
    THEN [kind |-> "return", val |-> code, err |-> TRUE]
    ELSE [kind |-> "raise", val |-> "ValidationError", err |-> FALSE]

\* a plain value returned by an operation (a key, a url, True, False, the end
\* of the chunk sequence)
Returned(v) == [kind |-> "return", val |-> v, err |-> FALSE]

\* an exception that leaves an operation
Raised(e) == [kind |-> "raise", val |-> e, err |-> FALSE]

\* lines 133-138: the handlers of stream_file
StreamHandler(exc) ==
    IF exc = "NoSuchKey" THEN Err("NOT_FOUND", TRUE)
    ELSE IF exc # "Other" THEN Err("STREAM_FAILED", TRUE)
    ELSE Err("UNKNOWN", FALSE)

\* lines 139-140: get_object raised, so "if response" in the outer finally
\* reads a local that was never assigned: the UnboundLocalError replaces
\* what the handler returned
OpenFailed(handled) == Raised("UnboundLocalError")

\* lines 129-131: the finally of the inner try
InnerFinally(n) == n + 1

\* lines 139-142: the finally of the outer try, entered with response bound
OuterFinally(n) == n + 1

ServiceInit ==
    /\ \E S \in SUBSET ServiceKeys, n \in 0..MaxChunks :
          /\ Cardinality(S) <= 1
          /\ t_objects = [k \in S |-> Content(n)]
    /\ directory \in DirInputs
    /\ filename \in FileInputs
    /\ object_name = <<>>
    /\ t_op = "none" /\ t_pc = "created" /\ backend = "none"
    /\ has_close \in BOOLEAN
    /\ data_closes = 0
    /\ response = [bound |-> FALSE, data |-> <<>>]
    /\ chunks_out = <<>>
    /\ closes = 0 /\ releases = 0
    /\ t_result = [kind |-> "none", val |-> "", err |-> FALSE]

\* the migration is not in use by the transfer service
MoveOff ==
    /\ buckets = {} /\ objects = <<>> /\ objects0 = <<>> /\ buckets0 = {}
    /\ src_bucket = "hello" /\ dest_bucket = "hello"
    /\ src_prefix = <<>> /\ dest_prefix = <<>> /\ overwrite = FALSE
    /\ pc = "off"
    /\ remaining = <<>> /\ key = <<>> /\ dest_key = <<>>
    /\ moved = 0 /\ copied = 0 /\ skipped = 0 /\ errors = 0
    /\ log = <<>> /\ raised = "none" /\ listed = <<>> /\ calls = <<>>

\* lines 118-120, 133-142: the first next() runs the generator up to
\* get_object; when get_object raises, the handler's return is replaced by
\* the UnboundLocalError of "if response" in the outer finally
StreamOpen ==
    /\ t_pc = "created"
    /\ object_name' = _build_object_name(directory, filename)
    /\ \E r \in GetOutcomes(t_objects, object_name') :
          /\ backend' = r
          /\ IF r = "ok"
             THEN /\ response' = [bound |-> TRUE, data |-> t_objects[object_name']]
                  /\ t_pc' = "opened"
                  /\ UNCHANGED t_result
             ELSE /\ t_result' = OpenFailed(StreamHandler(r))
                  /\ t_pc' = "done"
                  /\ UNCHANGED response
    /\ t_op' = "stream_file"
    /\ UNCHANGED << t_objects, directory, filename, chunks_out, closes, releases,
                    has_close, data_closes >>
    /\ UNCHANGED << move_vars, pure_vars >>

\* lines 122-142: one response.read(chunk_size): a chunk is yielded, or the
\* data is exhausted, or the read raises
StreamRead ==
    /\ t_pc \in {"opened", "suspended"}
    /\ \E read_ok \in BOOLEAN :
          IF read_ok /\ response.data # <<>>
          THEN /\ chunks_out' = Append(chunks_out, Head(response.data))
               /\ response' = [response EXCEPT !.data = Tail(@)]
               /\ t_pc' = "suspended"
               /\ UNCHANGED << closes, releases, t_result, backend >>
          ELSE /\ closes' = OuterFinally(InnerFinally(closes))
               /\ releases' = OuterFinally(InnerFinally(releases))
               /\ t_result' = IF read_ok THEN Returned("end") ELSE StreamHandler("Other")
               /\ backend' = IF read_ok THEN backend ELSE "ReadFailed"
               /\ t_pc' = "done"
               /\ UNCHANGED << chunks_out, response >>
    /\ UNCHANGED << t_objects, directory, filename, object_name, t_op, has_close,
                    data_closes >>
    /\ UNCHANGED << move_vars, pure_vars >>

\* the consumer drops the generator: nothing runs before the first next();
\* at a yield, GeneratorExit runs both finally blocks
StreamAbandon ==
    /\ t_pc \in {"created", "suspended"}
    /\ IF t_pc = "suspended"
       THEN /\ closes' = OuterFinally(InnerFinally(closes))
            /\ releases' = OuterFinally(InnerFinally(releases))
       ELSE UNCHANGED << closes, releases >>
    /\ t_result' = [kind |-> "closed", val |-> "", err |-> FALSE]
    /\ t_op' = "stream_file"
    /\ t_pc' = "done"
    /\ UNCHANGED << t_objects, directory, filename, object_name, response, chunks_out,
                    backend, has_close, data_closes >>
    /\ UNCHANGED << move_vars, pure_vars >>

\* the exceptions of the backing store that are S3Error
IsS3Error(e) == e \in {"NoSuchKey", "AccessDenied"}

\* what put_object and presigned_url can answer
CallOutcomes == {"ok", "AccessDenied", "Other"}

\* what remove_object can answer for a key
RemoveOutcomes(objs, k) ==
    IF k \in DOMAIN objs THEN {"ok", "AccessDenied", "Other"}
    ELSE {"ok", "NoSuchKey", "AccessDenied", "Other"}

\* lines 105-108: the handlers of upload_stream; the second one formats
\* object_name, which is unbound when the ValueError of line 90 was raised
UploadHandler(exc, name_bound) ==
    IF IsS3Error(exc) THEN Err("UPLOAD_FAILED", TRUE)
    ELSE IF name_bound THEN Err("UNKNOWN", TRUE)
    ELSE Raised("UnboundLocalError")

\* lines 109-114: the finally of upload_stream
UploadFinally_Missing(hc, n) == n

UploadFinally(hc, n) == IF hc THEN n + 1 ELSE n

\* lines 150-155: the handlers of delete_file; Err is given the exception
\* itself as message
DeleteHandler(exc) ==
    IF exc = "NoSuchKey" THEN Returned("False") ELSE Err("UNKNOWN", FALSE)

\* lines 173-176: the handlers of generate_presigned_url
PresignHandler(exc) ==
    IF IsS3Error(exc) THEN Err("PRESIGN_FAILED", TRUE) ELSE Err("UNKNOWN", FALSE)

\* lines 79-114: upload_stream
UploadStream ==
    /\ t_pc = "created"
    /\ t_op' = "upload_stream"
    /\ IF filename = <<>>
       THEN /\ t_result' = UploadHandler("ValueError", FALSE)
            /\ UNCHANGED << object_name, backend, t_objects >>
       ELSE /\ object_name' = _build_object_name(directory, filename)
            /\ \E r \in CallOutcomes, n \in 0..MaxChunks :
                  /\ backend' = r
                  /\ IF r = "ok"
                     THEN /\ t_objects' = [k \in (DOMAIN t_objects) \cup {object_name'} |->
                                              IF k = object_name' THEN Content(n)
                                              ELSE t_objects[k]]
                          /\ t_result' = Returned("object_name")
                     ELSE /\ t_result' = UploadHandler(r, TRUE)
                          /\ UNCHANGED t_objects
    /\ data_closes' = UploadFinally(has_close, data_closes)
    /\ t_pc' = "done"
    /\ UNCHANGED << directory, filename, has_close, response, chunks_out, closes,
                    releases >>
    /\ UNCHANGED << move_vars, pure_vars >>

\* lines 145-155: delete_file
DeleteFile ==
    /\ t_pc = "created"
    /\ t_op' = "delete_file"
    /\ object_name' = _build_object_name(directory, filename)
    /\ \E r \in RemoveOutcomes(t_objects, object_name') :
          /\ backend' = r
          /\ IF r = "ok"
             THEN /\ t_objects' = [k \in (DOMAIN t_objects) \ {object_name'} |-> t_objects[k]]
                  /\ t_result' = Returned("True")
             ELSE /\ t_result' = DeleteHandler(r)
                  /\ UNCHANGED t_objects
    /\ t_pc' = "done"
    /\ UNCHANGED << directory, filename, has_close, data_closes, response, chunks_out,
                    closes, releases >>
    /\ UNCHANGED << move_vars, pure_vars >>

\* lines 158-176: generate_presigned_url
GeneratePresignedUrl ==
    /\ t_pc = "created"
    /\ t_op' = "generate_presigned_url"
    /\ object_name' = _build_object_name(directory, filename)
    /\ \E r \in CallOutcomes :
          /\ backend' = r
          /\ t_result' = IF r = "ok" THEN Returned("url") ELSE PresignHandler(r)
    /\ t_pc' = "done"
    /\ UNCHANGED << t_objects, directory, filename, has_close, data_closes, response,
                    chunks_out, closes, releases >>
    /\ UNCHANGED << move_vars, pure_vars >>

TransferNext ==
    \/ StreamOpen \/ StreamRead \/ StreamAbandon
    \/ UploadStream \/ DeleteFile \/ GeneratePresignedUrl

TransferInit == ServiceInit /\ MoveOff /\ PureOff

TransferSpec == TransferInit /\ [][TransferNext]_vars

\* ================================================================ pure functions
FunctionInit ==
    /\ fn \in {"normalize_prefix", "_build_object_name"}
    /\ arg1 \in Texts
    /\ arg2 \in IF fn = "_build_object_name" THEN Texts ELSE {<<>>}
    /\ out1 = <<>> /\ out2 = <<>>
    /\ steps = 0

\* move_minio.py lines 32-35, applied to the input
ApplyNormalize ==
    /\ fn = "normalize_prefix" /\ steps = 0
    /\ out1' = normalize_prefix(arg1)
    /\ steps' = 1
    /\ UNCHANGED << fn, arg1, arg2, out2 >>
    /\ UNCHANGED << move_vars, transfer_vars >>

\* move_minio.py lines 32-35, applied to its own result
ApplyNormalizeAgain ==
    /\ fn = "normalize_prefix" /\ steps = 1
    /\ out2' = normalize_prefix(out1)
    /\ steps' = 2
    /\ UNCHANGED << fn, arg1, arg2, out1 >>
    /\ UNCHANGED << move_vars, transfer_vars >>

\* minio_bc.py lines 72-76, applied to (directory, filename)
ApplyBuildObjectName ==
    /\ fn = "_build_object_name" /\ steps = 0
    /\ out1' = _build_object_name(arg1, arg2)
    /\ steps' = 1
    /\ UNCHANGED << fn, arg1, arg2, out2 >>
    /\ UNCHANGED << move_vars, transfer_vars >>

PureNext == ApplyNormalize \/ ApplyNormalizeAgain \/ ApplyBuildObjectName

PureInit == FunctionInit /\ MoveOff /\ TransferOff

PureSpec == PureInit /\ [][PureNext]_vars

\* ================================================================ claims
\* history helpers
CallIdx == 1..Len(calls)

LastCall == calls[Len(calls)]

CountCalls(o, r) == Cardinality({ i \in CallIdx : calls[i].op = o /\ calls[i].res = r })

CopyFailures == CountCalls("copy", "error")

DeleteFailures == CountCalls("remove", "error")

ListedSet == { listed[i] : i \in 1..Len(listed) }

HasSummary == \E i \in 1..Len(log) : log[i].kind = "SUMMARY"

FatalStat(c) == c.op = "stat" /\ c.res \notin {"ok", "NoSuchKey", "NotFound"}

ItemFailure(c) == c.op \in {"copy", "remove"} /\ c.res = "error"

\* a step that issued one backend call
Issued == Len(calls') = Len(calls) + 1

\* the destination key the documentation gives for a listed key
ExpectedDest(k) ==
    normalize_prefix(dest_prefix) \o SubSeq(k, Len(normalize_prefix(src_prefix)) + 1, Len(k))

\* ---------------------------------------------------------------- C1
\* C1: a delete of a source object is issued only after the copy of the same
\* key returned successfully; no listed source object is gone while its copy
\* is unconfirmed.
C1_CopyPrecedesDelete ==
    /\ \A i \in CallIdx :
          calls[i].op = "remove" =>
             \E j \in 1..(i - 1) : /\ calls[j].op = "copy"
                                   /\ calls[j].key = calls[i].key
                                   /\ calls[j].res = "ok"
    /\ pc = "remove" =>
          /\ calls # <<>>
          /\ LastCall = [op |-> "copy", key |-> key, dest |-> dest_key, res |-> "ok"]
    /\ \A k \in ListedSet :
          ~Exists(objects, src_bucket, k) =>
             \E j \in CallIdx : /\ calls[j].op = "copy"
                                /\ calls[j].key = k
                                /\ calls[j].res = "ok"

C1_Witness ==
    \E i \in CallIdx : /\ calls[i].op = "remove"
                       /\ calls[i].res = "ok"
                       /\ ~Exists(objects, src_bucket, calls[i].key)

\* ---------------------------------------------------------------- C2
\* C2: at the end of every run (normal or aborted) every object that was under
\* the source prefix at run start is still present at its source key or is
\* present at its destination key.
C2_NoObjectLost ==
    pc \in {"done", "aborted"} =>
       \A k \in list_objects(objects0, src_bucket, normalize_prefix(src_prefix)) :
          \/ Exists(objects, src_bucket, k)
          \/ Exists(objects, dest_bucket, ExpectedDest(k))

\* ---------------------------------------------------------------- C3
\* C3: when the counters are reported, skipped + moved + errors equals the
\* number of keys the listing returned, errors being the copy failures plus
\* the delete failures.
C3_CountersPartitionListing ==
    pc = "done" =>
       /\ skipped + moved + errors = Len(listed)
       /\ errors = CopyFailures + DeleteFailures
       /\ skipped + moved + CopyFailures + DeleteFailures = Len(listed)

C3_Witness ==
    pc = "done" /\ skipped > 0 /\ moved > 0 /\ errors > 0

\* ---------------------------------------------------------------- C4
\* C4 as stated: in every reachable state moved <= copied and copied - moved
\* equals the number of delete failures so far.
C4_Original ==
    /\ moved <= copied
    /\ copied - moved = DeleteFailures

\* C4 amended: a copy failure counts in errors only, copy + delete success in
\* copied and moved, copy success + delete failure in copied and errors; no
\* counter decreases; moved <= copied, and copied - moved is the number of
\* delete failures so far, plus one while the delete of a copied key is
\* outstanding.
C4_Accounting ==
    /\ [](/\ moved <= copied
          /\ copied - moved = DeleteFailures + (IF pc = "remove" THEN 1 ELSE 0)
          /\ errors = CopyFailures + DeleteFailures)
    /\ [][/\ moved' >= moved /\ copied' >= copied
          /\ skipped' >= skipped /\ errors' >= errors
          /\ (Issued /\ calls'[Len(calls')].op = "copy") =>
                IF calls'[Len(calls')].res = "ok"
                THEN copied' = copied + 1 /\ UNCHANGED << moved, skipped, errors >>
                ELSE errors' = errors + 1 /\ UNCHANGED << moved, skipped, copied >>
          /\ (Issued /\ calls'[Len(calls')].op = "remove") =>
                IF calls'[Len(calls')].res = "ok"
                THEN moved' = moved + 1 /\ UNCHANGED << copied, skipped, errors >>
                ELSE errors' = errors + 1 /\ UNCHANGED << moved, skipped, copied >>
         ]_vars

C4_Witness ==
    pc = "done" /\ DeleteFailures > 0 /\ CopyFailures > 0 /\ moved > 0

\* ---------------------------------------------------------------- C5
\* C5: with overwrite=false, a key whose destination key exists when it is
\* probed is Skipped: skipped is incremented, no other counter changes, no
\* copy and no delete is issued for it, and the store is unchanged.
C5_SkipExisting ==
    /\ []((pc = "copy" /\ ~overwrite) => ~Exists(objects, dest_bucket, dest_key))
    /\ [][(pc = "stat" /\ Exists(objects, dest_bucket, dest_key)) =>
             /\ objects' = objects
             /\ UNCHANGED << moved, copied, errors >>
             /\ calls'[Len(calls')].op = "stat"
             /\ pc' \in {"loop", "aborted"}
             /\ pc' = "loop" => /\ skipped' = skipped + 1
                                /\ log' = Append(log, [kind |-> "SKIP", key |-> key,
                                                       dest |-> dest_key])
         ]_vars

C5_Witness ==
    /\ pc = "done"
    /\ \E i \in CallIdx : calls[i].op = "stat" /\ calls[i].res = "ok"
    /\ skipped > 0 /\ moved > 0

\* ---------------------------------------------------------------- C6
\* C6: a destination probe failing for a reason other than not-found aborts
\* the run: it is the last backend call, it is not counted in errors, and no
\* summary is printed.
C6_ProbeFailureAborts ==
    \A i \in CallIdx :
       FatalStat(calls[i]) =>
          /\ i = Len(calls)
          /\ pc = "aborted"
          /\ raised = calls[i].res
          /\ errors = CopyFailures + DeleteFailures
          /\ ~HasSummary

C6_Witness ==
    /\ pc = "aborted"
    /\ raised = "AccessDenied"
    /\ remaining # <<>>
    /\ copied > 0

\* ---------------------------------------------------------------- C7
\* C7: a copy or delete failure does not abort the run and leaves the store
\* and the keys still to come as they are; a run is aborted only by the
\* source-bucket precondition or a fatal probe, and a run that reaches the
\* summary has processed every listed key.
C7_ItemFailureIsolated ==
    /\ [](pc = "aborted" =>
             \/ raised = "RuntimeError"
             \/ calls # <<>> /\ FatalStat(LastCall))
    /\ [](pc = "done" =>
             /\ HasSummary
             /\ \A k \in ListedSet : \E i \in CallIdx : calls[i].key = k)
    /\ [][(Issued /\ ItemFailure(calls'[Len(calls')])) =>
             /\ pc' = "loop"
             /\ raised' = "none"
             /\ remaining' = remaining
             /\ objects' = objects
         ]_vars

C7_Witness ==
    /\ pc = "done"
    /\ \E i, j \in CallIdx : /\ i < j
                             /\ ItemFailure(calls[i])
                             /\ calls[j].op = "remove" /\ calls[j].res = "ok"
                             /\ calls[j].key # calls[i].key

\* ---------------------------------------------------------------- C8
\* C8: a missing source bucket aborts the run before any other effect (no
\* bucket created, nothing listed, copied, deleted or printed); with the
\* source bucket present the destination bucket exists afterwards and the
\* run proceeds.
C8_BucketPreconditions ==
    /\ []((pc # "start" /\ src_bucket \notin buckets0) =>
             /\ pc = "aborted" /\ raised = "RuntimeError"
             /\ buckets = buckets0 /\ objects = objects0
             /\ log = <<>> /\ calls = <<>> /\ listed = <<>>)
    /\ []((pc # "start" /\ src_bucket \in buckets0) =>
             /\ buckets = buckets0 \cup {dest_bucket}
             /\ raised # "RuntimeError")
    /\ [][(pc = "start" /\ src_bucket \in buckets) => pc' = "loop"]_vars

C8_Witness ==
    /\ pc = "aborted" /\ raised = "RuntimeError"
    /\ dest_bucket \notin buckets

\* ---------------------------------------------------------------- C9
NoBackendFailure == \A i \in CallIdx : calls[i].res \in {"ok", "NoSuchKey", "NotFound"}

PreExisted(k) == Exists(objects0, dest_bucket, ExpectedDest(k))

\* no destination of a listed key is itself a listed source object
DestinationsApart ==
    \A k \in ListedSet : ~(dest_bucket = src_bucket /\ ExpectedDest(k) \in ListedSet)

FunctionalResult ==
    /\ ListedSet = list_objects(objects0, src_bucket, normalize_prefix(src_prefix))
    /\ \A k \in ListedSet :
          IF PreExisted(k)
          THEN /\ Exists(objects, src_bucket, k)
               /\ \E i \in CallIdx : calls[i] = [op |-> "stat", key |-> k,
                                                 dest |-> ExpectedDest(k), res |-> "ok"]
          ELSE /\ Exists(objects, dest_bucket, ExpectedDest(k))
               /\ ~Exists(objects, src_bucket, k)
    /\ moved = Cardinality({ k \in ListedSet : ~PreExisted(k) })
    /\ copied = moved
    /\ skipped = Cardinality({ k \in ListedSet : PreExisted(k) })
    /\ errors = 0

\* C9 as stated: without backend failures and with overwrite=false, a key
\* whose destination pre-existed is skipped and stays, any other key ends at
\* its destination and is gone from the source, and the counters count the two
\* groups.
C9_Original ==
    (pc = "done" /\ ~overwrite /\ NoBackendFailure) => FunctionalResult

\* C9 amended: the same, for runs in which no destination of a listed key is
\* itself a listed source object.
C9_FunctionalResult ==
    (pc = "done" /\ ~overwrite /\ NoBackendFailure /\ DestinationsApart) => FunctionalResult

C9_Witness ==
    /\ pc = "done" /\ ~overwrite /\ NoBackendFailure /\ DestinationsApart
    /\ src_prefix # <<>>
    /\ moved = 1 /\ skipped = 1

\* ---------------------------------------------------------------- C10
\* C10: whenever stream_file ends after the response was opened (read to
\* completion, abandoned early, or failed mid-stream), the response was
\* closed and its connection released exactly once.
C10_ReleasedExactlyOnce ==
    (t_pc = "done" /\ response.bound) => (releases = 1 /\ closes = 1)

\* ---------------------------------------------------------------- C11
\* C11: when upload_stream has ended (upload done, put_object failed, or the
\* filename was empty) the input stream has been closed exactly once, and it
\* is never closed more than once.
C11_DataClosedOnce ==
    /\ data_closes <= 1
    /\ (t_op = "upload_stream" /\ t_pc = "done" /\ has_close) => data_closes = 1

C11_Witness ==
    /\ t_op = "upload_stream" /\ t_pc = "done" /\ has_close
    /\ filename = <<>>
    /\ data_closes = 1

\* ---------------------------------------------------------------- C12
\* an operation of the service met a failure: the backing store answered
\* with an error, or upload_stream was given an empty filename
OperationFailed ==
    \/ backend \notin {"none", "ok"}
    \/ t_op = "upload_stream" /\ filename = <<>>

\* C12: every operation of the service that meets a failure ends by returning
\* a failed Result, never by raising.
C12_FailuresAreResults ==
    (t_pc = "done" /\ OperationFailed) => (t_result.kind = "return" /\ t_result.err)

\* ---------------------------------------------------------------- C13
\* C13: stream_file ends with NOT_FOUND and no chunk when the key is absent
\* at open time, with STREAM_FAILED for another error of the backing store
\* at open time, and with UNKNOWN for any other failure.
C13_StreamErrorCodes ==
    (t_op = "stream_file" /\ t_pc = "done") =>
       /\ backend = "NoSuchKey" => (chunks_out = <<>> /\ t_result = Err("NOT_FOUND", TRUE))
       /\ backend = "AccessDenied" => t_result = Err("STREAM_FAILED", TRUE)
       /\ backend \in {"Other", "ReadFailed"} => (t_result.err /\ t_result.val = "UNKNOWN")

\* ---------------------------------------------------------------- C14
Attempts(o, k) == Cardinality({ i \in CallIdx : calls[i].op = o /\ calls[i].key = k })

Successes(o, k) ==
    Cardinality({ i \in CallIdx : calls[i].op = o /\ calls[i].key = k /\ calls[i].res = "ok" })

\* the number of lines of one kind (COPY, DELETE, ERROR, SKIP) that name a key
KeyLogLines(kind, k) ==
    Cardinality({ i \in 1..Len(log) : log[i].kind = kind /\ log[i].key = k })

\* C14 as stated: the log has one delete line for each delete attempt and
\* one copy line for each copy attempt, whatever the outcome.
C14_Original ==
    \A k \in InitKeys :
       /\ KeyLogLines("COPY", k) = Attempts("copy", k)
       /\ KeyLogLines("DELETE", k) = Attempts("remove", k)

\* C14 amended: the log has one copy line for each copy attempt, whatever
\* the outcome, and one delete line for each delete that succeeded; a failed
\* delete prints the error line and no delete line.
C14_LogLines ==
    [][LET printed == SubSeq(log', Len(log) + 1, Len(log'))
           kinds == [i \in 1..Len(printed) |-> printed[i].kind]
       IN  /\ SubSeq(log', 1, Len(log)) = log
           /\ IF Issued
                 THEN LET c == calls'[Len(calls')]
                      IN  /\ SubSeq(calls', 1, Len(calls)) = calls
                          /\ \A i \in 1..Len(printed) : printed[i].key = c.key
                          /\ c.op = "copy" =>
                                kinds = IF c.res = "ok" THEN << "COPY" >>
                                        ELSE << "COPY", "ERROR" >>
                          /\ c.op = "remove" =>
                                kinds = IF c.res = "ok" THEN << "DELETE" >>
                                        ELSE << "ERROR" >>
                          /\ c.op = "stat" =>
                                \A i \in 1..Len(kinds) :
                                   kinds[i] \notin {"COPY", "DELETE", "ERROR"}
                 ELSE /\ calls' = calls
                      /\ \A i \in 1..Len(kinds) :
                            kinds[i] \notin {"COPY", "DELETE", "ERROR"}
      ]_vars

C14_Witness ==
    /\ pc = "done"
    /\ \E k \in InitKeys : Attempts("remove", k) = 1 /\ Successes("remove", k) = 0
    /\ \E k \in InitKeys : Successes("remove", k) = 1
    /\ \E k \in InitKeys : Attempts("copy", k) = 1 /\ Successes("copy", k) = 0

\* ---------------------------------------------------------------- C15
Summaries == { i \in 1..Len(log) : log[i].kind = "SUMMARY" }

\* every listed key has had its last backend call
Classified(k) ==
    \E i \in CallIdx :
       /\ calls[i].key = k
       /\ \/ calls[i].op = "stat" /\ calls[i].res = "ok"
          \/ calls[i].op = "copy" /\ calls[i].res = "error"
          \/ calls[i].op = "remove"

\* C15: every run ends; a run that is not aborted prints exactly one summary
\* line, as its last line, with the four counters, after every listed key
\* was classified; no summary line exists before that or in an aborted run.
C15_SummaryOnce ==
    /\ [](pc = "done" =>
             /\ Cardinality(Summaries) = 1
             /\ log[Len(log)] = [kind |-> "SUMMARY", moved |-> moved, copied |-> copied,
                                 skipped |-> skipped, errors |-> errors]
             /\ remaining = <<>>
             /\ \A k \in ListedSet : Classified(k))
    /\ [](pc # "done" => Summaries = {})
    /\ [](pc = "aborted" => (raised # "none" /\ Summaries = {}))
    /\ <>(pc \in {"done", "aborted"})

C15_Witness ==
    /\ pc = "done"
    /\ Len(listed) >= 2
    /\ errors > 0 /\ moved > 0
    /\ log[Len(log)].kind = "SUMMARY"

\* ---------------------------------------------------------------- C16
EndsInTwoSeparators(s) == Len(s) >= 2 /\ s[Len(s)] = "/" /\ s[Len(s) - 1] = "/"

\* C16 as stated: normalize_prefix(p) is empty or ends in exactly one '/'.
C16_Original ==
    (fn = "normalize_prefix" /\ steps >= 1) =>
       \/ out1 = <<>>
       \/ EndsWith(out1, "/") /\ ~EndsInTwoSeparators(out1)

\* C16 amended: normalize_prefix(p) is empty exactly when p is, and otherwise
\* ends in '/'; it ends in two or more '/' only when p itself does.
C16_EndsInSeparator ==
    (fn = "normalize_prefix" /\ steps >= 1) =>
       /\ out1 = <<>> <=> arg1 = <<>>
       /\ out1 # <<>> => EndsWith(out1, "/")
       /\ EndsInTwoSeparators(out1) => EndsInTwoSeparators(arg1)
       /\ ~EndsWith(arg1, "/") => ~EndsInTwoSeparators(out1)

C16_Witness ==
    /\ fn = "normalize_prefix" /\ steps >= 1
    /\ arg1 = <<"a">>
    /\ out1 = <<"a", "/">>

\* ---------------------------------------------------------------- C17
AllSeparators(s) == \A i \in 1..Len(s) : s[i] = "/"

\* D is d without its leading and trailing separators
StrippedTo(d, D) ==
    /\ D = <<>> \/ (D[1] # "/" /\ D[Len(D)] # "/")
    /\ \E i \in 0..Len(d) :
          /\ i + Len(D) <= Len(d)
          /\ AllSeparators(SubSeq(d, 1, i))
          /\ SubSeq(d, i + 1, i + Len(D)) = D
          /\ AllSeparators(SubSeq(d, i + Len(D) + 1, Len(d)))

\* the key is the stripped directory, a separator and the filename, or the
\* filename alone when nothing is left of the directory
JoinedKey(d, f, k) ==
    IF AllSeparators(d) THEN k = f
    ELSE /\ Len(k) > Len(f) + 1
         /\ SubSeq(k, Len(k) - Len(f) + 1, Len(k)) = f
         /\ k[Len(k) - Len(f)] = "/"
         /\ StrippedTo(d, SubSeq(k, 1, Len(k) - Len(f) - 1))

\* C17 as stated: for every directory and every non-empty filename the key
\* has no leading separator, is the filename when the directory is empty,
\* and has the directory's leading and trailing separators removed.
C17_Original ==
    (fn = "_build_object_name" /\ steps = 1 /\ arg2 # <<>>) =>
       /\ out1[1] # "/"
       /\ JoinedKey(arg1, arg2, out1)

\* C17 amended: the same for every non-empty filename that does not itself
\* start with a separator.
C17_ObjectKey ==
    (fn = "_build_object_name" /\ steps = 1 /\ arg2 # <<>> /\ arg2[1] # "/") =>
       /\ out1[1] # "/"
       /\ JoinedKey(arg1, arg2, out1)

C17_Witness ==
    /\ fn = "_build_object_name" /\ steps = 1
    /\ arg1 = <<"/", "a", "/">> /\ arg2 = <<"a">>
    /\ out1 = <<"a", "/", "a">>

\* ---------------------------------------------------------------- C18
\* C18: normalize_prefix applied to its own result gives that result.
C18_Idempotent ==
    (fn = "normalize_prefix" /\ steps = 2) => out2 = out1

C18_Witness ==
    /\ fn = "normalize_prefix" /\ steps = 2
    /\ arg1 = <<"a">>
    /\ out1 = <<"a", "/">> /\ out2 = out1

\* ---------------------------------------------------------------- C19
\* the classification of a key, read from the calls made for it
KeyState(cs, k) ==
    LET has(o, r) == \E i \in 1..Len(cs) : cs[i].key = k /\ cs[i].op = o /\ cs[i].res = r
    IN  IF has("stat", "ok") THEN "Skipped"
        ELSE IF has("copy", "error") THEN "CopyFailed"
        ELSE IF has("remove", "ok") THEN "Moved"
        ELSE IF has("remove", "error") THEN "DeleteFailed"
        ELSE IF has("copy", "ok") THEN "Copied"
        ELSE "Pending"

KeyEdges ==
    { <<"Pending", "Skipped">>, <<"Pending", "CopyFailed">>, <<"Pending", "Copied">>,
      <<"Copied", "Moved">>, <<"Copied", "DeleteFailed">> }

NormalizedSource ==
    IF src_prefix = <<>> \/ EndsWith(src_prefix, "/") THEN src_prefix
    ELSE src_prefix \o <<"/">>

\* C20: only keys returned by the listing of the normalized source prefix are
\* copied from or deleted; an object of the source bucket whose key does not
\* start with that prefix is never a copy source and is never deleted.
C20_OutsidePrefixUntouched ==
    /\ \A i \in CallIdx :
          calls[i].op \in {"copy", "remove"} =>
             /\ StartsWith(calls[i].key, NormalizedSource)
             /\ calls[i].key \in ListedSet
    /\ \A k \in ListedSet : StartsWith(k, NormalizedSource)
    /\ \A k \in InitKeys :
          (Exists(objects0, src_bucket, k) /\ ~StartsWith(k, NormalizedSource))
             => Exists(objects, src_bucket, k)

C20_Witness ==
    /\ pc = "done"
    /\ src_prefix = <<"a", "/">>
    /\ Exists(objects0, src_bucket, <<"a", "b", "/", "x">>)
    /\ Exists(objects, src_bucket, <<"a", "b", "/", "x">>)
    /\ moved > 0

====
